---- MODULE Spec2Model ----
(***************************************************************************)
(* Model of the analytics aggregation engine of powerbi-manager            *)
(* (src/app.py): build_summary, build_performance,                         *)
(* filter_refreshes_by_window, performance_sets and                        *)
(* compute_avg_interval_hours; of the soft-delete bookkeeping of           *)
(* update_semantic_models (src/services/db.py); and of the schedule        *)
(* update protocol of set_schedule and set_workspace_schedule.             *)
(*                                                                         *)
(* Encoding of Python values                                               *)
(*   None / missing key     <<>>            (None)                         *)
(*   a present value v      <<v>>           (Some(v))                      *)
(*   dict (insertion order) sequence of [k |-> key, v |-> value]           *)
(*   timestamp string       [fmt, wall, off]: fmt is the textual form,     *)
(*                          wall the wall-clock hour it spells and off the *)
(*                          UTC offset it spells, in hours                 *)
(*   float                  exact rational [num, den], den > 0             *)
(* Instants are whole hours since an arbitrary epoch.                      *)
(***************************************************************************)
EXTENDS Integers, Sequences, FiniteSets, TLC

VARIABLES workspaces, categories, semantic_models, refreshes_by_ws,
          capacity_metrics, cutoff, now,
          pc, perf, summary, filtered, refiltered, freq, sets, skip_flag,
          stored, clock, fetch_log,
          sched, schedules, served,
          workspace_cache, unix_time, ws_call, ws_calls

vars == <<workspaces, categories, semantic_models, refreshes_by_ws,
          capacity_metrics, cutoff, now,
          pc, perf, summary, filtered, refiltered, freq, sets, skip_flag,
          stored, clock, fetch_log,
          sched, schedules, served,
          workspace_cache, unix_time, ws_call, ws_calls>>

\* the workspace cache, the time.time() clock, the fetch_workspaces call in
\* progress and the calls completed so far
caching == <<workspace_cache, unix_time, ws_call, ws_calls>>

\* the schedule request in progress, the schedules table and the number of
\* schedule requests received
scheduling == <<sched, schedules, served>>

\* the semantic_models table, the UTC clock and the fetches applied so far
db == <<stored, clock, fetch_log>>

\* the snapshot one request works on
inputs == <<workspaces, categories, semantic_models, refreshes_by_ws,
            capacity_metrics, cutoff, now>>

None == <<>>
Some(v) == <<v>>

\* ---------------------------------------------------------------- bounds
\* longest refresh list of the dataset under study
MaxLen == 3
\* most semantic models of one workspace
MaxModels == 11
\* the refresh lists of a workspace's models repeat with this period
PatternLen == 3

\* ------------------------------------------------------------- rationals
\* Durations are whole seconds and instants whole hours, so every mean, the
\* 1.1 threshold and every reciprocal is an exact rational; comparisons
\* cross-multiply (denominators are positive).
Rat(n, d) == [num |-> n, den |-> d]
Zero == Rat(0, 1)
RatEq(a, b) == a.num * b.den = b.num * a.den
RatLt(a, b) == a.num * b.den < b.num * a.den

\* ------------------------------------------------------ sequence helpers
RECURSIVE SumSeq(_)
SumSeq(s) == IF s = <<>> THEN 0 ELSE s[1] + SumSeq(Tail(s))

RECURSIVE BoundedSeq(_, _)
BoundedSeq(S, n) ==
    IF n = 0 THEN {<<>>}
    ELSE LET shorter == BoundedSeq(S, n - 1)
         IN  shorter \cup {Append(s, x) : s \in {t \in shorter : Len(t) = n - 1}, x \in S}

\* ------------------------------------------------------------ dict.get
\* one key/value item of a dict
Entry(key, val) == [k |-> key, v |-> val]
HasKey(d, key) == \E i \in DOMAIN d : d[i].k = key
\* d.get(key, default)
Get(d, key, default) ==
    IF HasKey(d, key) THEN d[CHOOSE i \in DOMAIN d : d[i].k = key].v ELSE default
DictKeys(d) == [i \in DOMAIN d |-> d[i].k]

\* ------------------------------------------------------ str.lower/upper
Lower(s) ==
    CASE s \in {"Completed", "COMPLETED", "completed"} -> "completed"
      [] s \in {"Failed", "failed"} -> "failed"
      [] OTHER -> s
Upper(s) ==
    CASE s \in {"prod", "Prod", "PROD"} -> "PROD"
      [] s \in {"dev", "DEV"} -> "DEV"
      [] s \in {"uat", "UAT"} -> "UAT"
      [] OTHER -> s

\* `x or default` for an optional string / an optional number
StrOr(o, default) == IF o = None \/ o = Some("") THEN default ELSE o[1]
NumOr(o, default) == IF o = None \/ o = Some(0) THEN default ELSE o[1]

\* ------------------------------------------------------ Time Normalizer
\* ts = r.get("start_time") or r.get("startTime")
Truthy(ts) == ts # None /\ ts[1].fmt # "empty"
TsOf(r) == IF Truthy(r.start_time) THEN r.start_time ELSE r.startTime

\* datetime.fromisoformat(ts.replace("Z", "+00:00")) then to UTC:
\* None when fromisoformat raises, else the UTC instant.
ParseUtc(s) ==
    CASE s.fmt = "Z" -> Some(s.wall)
      [] s.fmt = "naive" -> Some(s.wall)
      [] s.fmt = "offset" -> Some(s.wall - s.off)
      [] OTHER -> None

\* ------------------------------------------------------ Interval Estimator
\* list.sort() on instants (ascending; insertion keeps equal keys in order)
RECURSIVE InsertAsc(_, _)
InsertAsc(x, s) ==
    IF s = <<>> THEN <<x>>
    ELSE IF x < Head(s) THEN <<x>> \o s
    ELSE <<Head(s)>> \o InsertAsc(x, Tail(s))

RECURSIVE SortAsc(_)
SortAsc(s) == IF s = <<>> THEN <<>> ELSE InsertAsc(s[Len(s)], SortAsc(SubSeq(s, 1, Len(s) - 1)))

\* deltas between neighbours of a sorted list, in hours (app.py 137-139, 307-309)
Deltas(ts) == [i \in 1..(Len(ts) - 1) |-> ts[i + 1] - ts[i]]

\* seeded fault: the sum of the gaps is divided by the number of timestamps
MeanGap_PerTimestamp(ts) ==
    IF Len(ts) >= 2 THEN Rat(SumSeq(Deltas(ts)), Len(ts)) ELSE Zero
\* sum(deltas) / len(deltas) if deltas else 0, for len(timestamps) >= 2; else 0
MeanGap(ts) ==
    IF Len(ts) >= 2 THEN Rat(SumSeq(Deltas(ts)), Len(Deltas(ts))) ELSE Zero

\* 0 if avg_interval_hours == 0 else 1 / avg_interval_hours
Reciprocal(avg) == IF avg.num = 0 THEN Zero ELSE Rat(avg.den, avg.num)

\* compute_avg_interval_hours, loop of lines 292-304: the try is inside the
\* loop, so a record whose start time does not parse is skipped.
RECURSIVE TimestampsSkipping(_)
TimestampsSkipping(rlist) ==
    IF rlist = <<>> THEN <<>>
    ELSE LET ts == TsOf(Head(rlist))
             rest == TimestampsSkipping(Tail(rlist))
         IN  IF ~Truthy(ts) THEN rest
             ELSE IF ParseUtc(ts[1]) = None THEN rest
             ELSE <<ParseUtc(ts[1])[1]>> \o rest

\* build_performance, loop of lines 125-134: the try encloses the loop, so
\* the first record whose start time does not parse raises out of it.
\* None stands for the exception, Some(list) for the collected instants.
RECURSIVE TimestampsRaising(_)
TimestampsRaising(rlist) ==
    IF rlist = <<>> THEN Some(<<>>)
    ELSE LET ts == TsOf(Head(rlist))
             rest == TimestampsRaising(Tail(rlist))
         IN  IF ~Truthy(ts) THEN rest
             ELSE IF ParseUtc(ts[1]) = None THEN None
             ELSE IF rest = None THEN None
             ELSE Some(<<ParseUtc(ts[1])[1]>> \o rest[1])

compute_avg_interval_hours(refreshes_by_ds) ==
    [i \in DOMAIN refreshes_by_ds |->
        [k |-> refreshes_by_ds[i].k,
         v |-> MeanGap(SortAsc(TimestampsSkipping(refreshes_by_ds[i].v)))]]

\* build_performance lines 119-144: [avg_interval_hours, freq_per_hour]
Cadence(rlist) ==
    LET got == TimestampsRaising(rlist)
        avg == IF got = None THEN Zero ELSE MeanGap(SortAsc(got[1]))
    IN  [avg_interval_hours |-> avg, freq_per_hour |-> Reciprocal(avg)]

\* --------------------------------------------------- Performance Aggregator
SLOW_FACTOR_NUM == 11
SLOW_FACTOR_DEN == 10
EFFICIENT_CEILING == 300

IsCompleted(r) == Lower(StrOr(r.status, "")) = "completed"

\* [r.get("duration_seconds") for r in rlist if ... is not None]
Durations(rlist) ==
    LET present == SelectSeq(rlist, LAMBDA r : r.duration_seconds # None)
    IN  [i \in DOMAIN present |-> present[i].duration_seconds[1]]

\* sum(durations) / len(durations) if durations else 0
AvgSec(rlist) ==
    LET durations == Durations(rlist)
    IN  IF durations = <<>> THEN Zero ELSE Rat(SumSeq(durations), Len(durations))

\* (rlist[0] if rlist else {}).get("duration_seconds") or 0
LastSec(rlist) == IF rlist = <<>> THEN 0 ELSE NumOr(rlist[1].duration_seconds, 0)

\* seeded fault: the threshold comparison is not strict
ExceedsFactor_NonStrict(last_sec, avg) ==
    last_sec * avg.den * SLOW_FACTOR_DEN >= avg.num * SLOW_FACTOR_NUM
\* last_sec > avg * 1.1
ExceedsFactor(last_sec, avg) ==
    last_sec * avg.den * SLOW_FACTOR_DEN > avg.num * SLOW_FACTOR_NUM

\* avg_sec > 0 and last_sec > avg_sec * 1.1
Outlier(rlist) == AvgSec(rlist).num > 0 /\ ExceedsFactor(LastSec(rlist), AvgSec(rlist))

Failures(rlist) == Len(SelectSeq(rlist, LAMBDA r : ~IsCompleted(r)))
\* seeded fault: the success count compares the status without lower()
Successes_CaseSensitive(rlist) ==
    Len(SelectSeq(rlist, LAMBDA r : StrOr(r.status, "") = "completed"))
Successes(rlist) == Len(SelectSeq(rlist, LAMBDA r : IsCompleted(r)))

\* seeded fault: the avg_sec > 0 condition is missing
Efficient_NoFloor(rlist) ==
    /\ Failures(rlist) = 0
    /\ AvgSec(rlist).num <= EFFICIENT_CEILING * AvgSec(rlist).den
\* seeded fault: the ceiling is exclusive
Efficient_StrictCeiling(rlist) ==
    /\ Failures(rlist) = 0
    /\ AvgSec(rlist).num > 0
    /\ AvgSec(rlist).num < EFFICIENT_CEILING * AvgSec(rlist).den
\* failures == 0 and avg_sec > 0 and avg_sec <= 300
Efficient(rlist) ==
    /\ Failures(rlist) = 0
    /\ AvgSec(rlist).num > 0
    /\ AvgSec(rlist).num <= EFFICIENT_CEILING * AvgSec(rlist).den

\* m.get("model_id") or m.get("id")
Mid(m) == IF m.model_id # None /\ m.model_id # Some("") THEN m.model_id[1] ELSE m.id[1]

\* ws_by_id = {ws.get("id"): ws for ws in workspaces}: the last entry wins
WsById(wss, ws_id) ==
    IF \E i \in DOMAIN wss : wss[i].id = ws_id
    THEN Some(wss[CHOOSE i \in DOMAIN wss :
                    /\ wss[i].id = ws_id
                    /\ \A j \in DOMAIN wss : wss[j].id = ws_id => j <= i])
    ELSE None

EmptyCat == [env |-> None, module |-> None]

\* the record appended at lines 146-165
PerfRecord(ws_id, ws, cat, m, rlist) ==
    [workspace_id |-> ws_id,
     workspace_name |-> IF ws = None THEN ws_id ELSE StrOr(ws[1].name, ws_id),
     env |-> Upper(StrOr(cat.env, "")),
     module |-> StrOr(cat.module, "Unassigned"),
     model_id |-> Mid(m),
     model_name |-> StrOr(m.name, Mid(m)),
     avg_sec |-> AvgSec(rlist),
     last_sec |-> LastSec(rlist),
     failures |-> Failures(rlist),
     successes |-> Successes(rlist),
     total |-> Len(rlist),
     freq_per_hour |-> Cadence(rlist).freq_per_hour,
     avg_interval_hours |-> Cadence(rlist).avg_interval_hours,
     last_status |-> IF rlist = <<>> THEN None ELSE rlist[1].status,
     outlier |-> Outlier(rlist),
     efficient |-> Efficient(rlist)]

\* seeded fault: models without records are skipped whatever skip_empty says
RECURSIVE ModelRows_AlwaysSkips(_, _, _, _, _, _)
ModelRows_AlwaysSkips(ws_id, ws, cat, models_list, refresh_map, skip_empty) ==
    IF models_list = <<>> THEN <<>>
    ELSE LET m == Head(models_list)
             rlist == Get(refresh_map, Mid(m), <<>>)
             rest == ModelRows_AlwaysSkips(ws_id, ws, cat, Tail(models_list),
                                           refresh_map, skip_empty)
         IN  IF rlist = <<>> THEN rest
             ELSE <<PerfRecord(ws_id, ws, cat, m, rlist)>> \o rest
\* inner loop, lines 105-165
RECURSIVE ModelRows(_, _, _, _, _, _)
ModelRows(ws_id, ws, cat, models_list, refresh_map, skip_empty) ==
    IF models_list = <<>> THEN <<>>
    ELSE LET m == Head(models_list)
             rlist == Get(refresh_map, Mid(m), <<>>)
             rest == ModelRows(ws_id, ws, cat, Tail(models_list), refresh_map, skip_empty)
         IN  IF skip_empty /\ rlist = <<>> THEN rest
             ELSE <<PerfRecord(ws_id, ws, cat, m, rlist)>> \o rest

RECURSIVE build_performance(_, _, _, _, _)
build_performance(wss, cats, sem_models, refreshes, skip_empty) ==
    IF sem_models = <<>> THEN <<>>
    ELSE LET ws_id == Head(sem_models).k
         IN  ModelRows(ws_id, WsById(wss, ws_id), Get(cats, ws_id, EmptyCat),
                       Head(sem_models).v, Get(refreshes, ws_id, <<>>), skip_empty)
             \o build_performance(wss, cats, Tail(sem_models), refreshes, skip_empty)

\* ---------------------------------------------------------- Summary Builder
\* d[key] = val for a key already present
SetKey(d, key, val) == [i \in DOMAIN d |-> IF d[i].k = key THEN [k |-> key, v |-> val] ELSE d[i]]
\* d.setdefault(key, default)
SetDefault(d, key, default) == IF HasKey(d, key) THEN d ELSE Append(d, [k |-> key, v |-> default])

\* seeded fault: the status of the oldest record decides
IsFailed_Oldest(rlist) == rlist # <<>> /\ ~IsCompleted(rlist[Len(rlist)])
\* lines 60-63: the head record's status is not "completed"
IsFailed(rlist) == rlist # <<>> /\ ~IsCompleted(rlist[1])

\* lines 60-68: (latest.get("duration_seconds") or 0) > avg * 1.1
IsSlow(rlist) ==
    /\ rlist # <<>>
    /\ Durations(rlist) # <<>>
    /\ ExceedsFactor(NumOr(rlist[1].duration_seconds, 0),
                     Rat(SumSeq(Durations(rlist)), Len(Durations(rlist))))

\* failed_models: names appended at line 63 over `for m in models`
FailedModels(models, refreshes) ==
    LET hit == SelectSeq(models, LAMBDA m : IsFailed(Get(refreshes, Mid(m), <<>>)))
    IN  [i \in DOMAIN hit |-> StrOr(hit[i].name, Mid(hit[i]))]

\* slow_models: names appended at line 68 over `for m in models`
SlowModels(models, refreshes) ==
    LET hit == SelectSeq(models, LAMBDA m : IsSlow(Get(refreshes, Mid(m), <<>>)))
    IN  [i \in DOMAIN hit |-> StrOr(hit[i].name, Mid(hit[i]))]

\* lines 70-76
Stats(models, refreshes) ==
    LET failed_models == FailedModels(models, refreshes)
        slow_models == SlowModels(models, refreshes)
    IN  [model_count |-> Len(models),
         failed_count |-> Len(failed_models),
         slow_count |-> Len(slow_models),
         failed_models |-> failed_models,
         slow_models |-> slow_models]

\* seeded fault: summary[module] = {} instead of setdefault
Place_ResetsModule(sum, module, env, entry) ==
    LET s1 == IF HasKey(sum, module) THEN SetKey(sum, module, <<>>)
              ELSE Append(sum, [k |-> module, v |-> <<>>])
        by_env == SetDefault(Get(s1, module, <<>>), env, <<>>)
    IN  SetKey(s1, module, SetKey(by_env, env, Append(Get(by_env, env, <<>>), entry)))
\* lines 79-90
Place(sum, module, env, entry) ==
    LET s1 == SetDefault(sum, module, <<>>)
        by_env == SetDefault(Get(s1, module, <<>>), env, <<>>)
    IN  SetKey(s1, module, SetKey(by_env, env, Append(Get(by_env, env, <<>>), entry)))

\* loop of lines 46-90 over categories.items(), acc = [summary, ws_stats]
RECURSIVE SummaryLoop(_, _, _, _, _)
SummaryLoop(wss, cats, sem_models, refreshes, acc) ==
    IF cats = <<>> THEN acc
    ELSE LET ws_id == Head(cats).k
             cat == Head(cats).v
             ws == WsById(wss, ws_id)
             models == Get(sem_models, ws_id, <<>>)
             stats == Stats(models, Get(refreshes, ws_id, <<>>))
             entry == [id |-> ws_id, name |-> ws[1].name, models |-> models,
                       model_count |-> stats.model_count,
                       failed_count |-> stats.failed_count,
                       slow_count |-> stats.slow_count,
                       failed_models |-> stats.failed_models,
                       slow_models |-> stats.slow_models]
             next == [summary |-> Place(acc.summary, StrOr(cat.module, "Unassigned module"),
                                        StrOr(cat.env, "unspecified"), entry),
                      ws_stats |-> Append(acc.ws_stats, [k |-> ws_id, v |-> stats])]
         IN  SummaryLoop(wss, Tail(cats), sem_models, refreshes,
                         IF ws = None THEN acc ELSE next)

build_summary(wss, cats, sem_models, refreshes) ==
    SummaryLoop(wss, cats, sem_models, refreshes, [summary |-> <<>>, ws_stats |-> <<>>])

\* ------------------------------------------------------------ Window Filter
\* seeded fault: the boundary instant is excluded (dt > cutoff)
RECURSIVE FilterList_Exclusive(_, _)
FilterList_Exclusive(rlist, c) ==
    IF rlist = <<>> THEN <<>>
    ELSE LET r == Head(rlist)
             ts == TsOf(r)
             rest == FilterList_Exclusive(Tail(rlist), c)
         IN  IF ~Truthy(ts) THEN rest
             ELSE IF ParseUtc(ts[1]) = None THEN rest
             ELSE IF ParseUtc(ts[1])[1] > c THEN <<r>> \o rest
             ELSE rest

\* seeded fault: records are removed from the list being iterated, so the record
\* after a removed one is never examined
RECURSIVE FilterList_RemoveInPlace(_, _)
FilterList_RemoveInPlace(rlist, c) ==
    IF rlist = <<>> THEN <<>>
    ELSE LET r == Head(rlist)
             ts == TsOf(r)
             keep == /\ Truthy(ts)
                     /\ ParseUtc(ts[1]) # None
                     /\ ParseUtc(ts[1])[1] >= c
         IN  IF keep THEN <<r>> \o FilterList_RemoveInPlace(Tail(rlist), c)
             ELSE IF Tail(rlist) = <<>> THEN <<>>
             ELSE <<rlist[2]>> \o FilterList_RemoveInPlace(Tail(Tail(rlist)), c)

\* loop of lines 177-191 over one dataset's list
RECURSIVE FilterList(_, _)
FilterList(rlist, c) ==
    IF rlist = <<>> THEN <<>>
    ELSE LET r == Head(rlist)
             ts == TsOf(r)
             rest == FilterList(Tail(rlist), c)
         IN  IF ~Truthy(ts) THEN rest
             ELSE IF ParseUtc(ts[1]) = None THEN rest
             ELSE IF ParseUtc(ts[1])[1] >= c THEN <<r>> \o rest
             ELSE rest

\* seeded fault: no early return; without a cutoff every record is still parsed
\* and the ones without a parseable start time are dropped
filter_refreshes_by_window_AlwaysParse(refreshes, cut) ==
    [w \in DOMAIN refreshes |->
        [k |-> refreshes[w].k,
         v |-> [d \in DOMAIN refreshes[w].v |->
                  [k |-> refreshes[w].v[d].k,
                   v |-> SelectSeq(refreshes[w].v[d].v,
                            LAMBDA r : /\ Truthy(TsOf(r))
                                       /\ ParseUtc(TsOf(r)[1]) # None
                                       /\ (cut = None \/ ParseUtc(TsOf(r)[1])[1] >= cut[1]))]]]]

\* cut is None (no cutoff) or Some(instant)
filter_refreshes_by_window(refreshes, cut) ==
    IF cut = None THEN refreshes
    ELSE [w \in DOMAIN refreshes |->
            [k |-> refreshes[w].k,
             v |-> [d \in DOMAIN refreshes[w].v |->
                      [k |-> refreshes[w].v[d].k,
                       v |-> FilterList(refreshes[w].v[d].v, cut[1])]]]]

\* --------------------------------------------------- Capacity Series Builder
\* order of two timestamp strings of the same layout as str compares them:
\* the wall-clock digits first, then the suffix ("" < "+hh:00" < "-hh:00" < "Z")
SuffixRank(s) ==
    CASE s.fmt = "naive" -> 0
      [] s.fmt = "offset" /\ s.off >= 0 -> 1
      [] s.fmt = "offset" /\ s.off < 0 -> 2
      [] OTHER -> 3
StrBefore(a, b) ==
    \/ a.wall < b.wall
    \/ a.wall = b.wall /\ SuffixRank(a) < SuffixRank(b)
    \/ /\ a.wall = b.wall
       /\ SuffixRank(a) = SuffixRank(b)
       /\ a.fmt = "offset"
       /\ (IF a.off >= 0 THEN a.off ELSE -a.off) < (IF b.off >= 0 THEN b.off ELSE -b.off)

\* list.sort(key=lambda p: p["x"]): stable, ascending on the string
SortByX(points) ==
    LET RECURSIVE Ins(_, _)
        Ins(p, s) ==
            IF s = <<>> THEN <<p>>
            ELSE IF StrBefore(p.x, Head(s).x) THEN <<p>> \o s
            ELSE <<Head(s)>> \o Ins(p, Tail(s))
        RECURSIVE Srt(_)
        Srt(s) == IF s = <<>> THEN <<>> ELSE Ins(s[Len(s)], Srt(SubSeq(s, 1, Len(s) - 1)))
    IN  Srt(points)

\* lines 200-214 for one sample: None when the sample is dropped
CapacityPoint(p, cut) ==
    LET ts == IF Truthy(p.ts) THEN p.ts ELSE p.timestamp
        val == IF p.cu # None THEN p.cu ELSE p.value
    IN  IF ts = None \/ val = None THEN None
        ELSE IF ParseUtc(ts[1]) = None THEN None
        ELSE IF cut = None \/ ParseUtc(ts[1])[1] >= cut[1]
             THEN Some([x |-> ts[1], y |-> val[1]])
        ELSE None

build_capacity_series(metrics, cut) ==
    LET kept == SelectSeq(metrics, LAMBDA p : CapacityPoint(p, cut) # None)
    IN  SortByX([i \in DOMAIN kept |-> CapacityPoint(kept[i], cut)[1]])

\* ------------------------------------------------ Performance Sets Orchestrator
TOP_N == 10
DAY_HOURS == 24
WEEK_DAYS == 7
MINUTE_SECONDS == 60

\* sorted(rows, key=lambda x: x["avg_sec"], reverse=True): descending, rows
\* with equal keys keep their order
SortByAvgDesc(rows) ==
    LET RECURSIVE Ins(_, _)
        Ins(x, s) ==
            IF s = <<>> THEN <<x>>
            ELSE IF RatLt(Head(s).avg_sec, x.avg_sec) THEN <<x>> \o s
            ELSE <<Head(s)>> \o Ins(x, Tail(s))
        RECURSIVE Srt(_)
        Srt(s) == IF s = <<>> THEN <<>> ELSE Ins(s[Len(s)], Srt(SubSeq(s, 1, Len(s) - 1)))
    IN  Srt(rows)

\* sorted(rows, key=lambda x: x["failures"], reverse=True)
SortByFailuresDesc(rows) ==
    LET RECURSIVE Ins(_, _)
        Ins(x, s) ==
            IF s = <<>> THEN <<x>>
            ELSE IF x.failures > Head(s).failures THEN <<x>> \o s
            ELSE <<Head(s)>> \o Ins(x, Tail(s))
        RECURSIVE Srt(_)
        Srt(s) == IF s = <<>> THEN <<>> ELSE Ins(s[Len(s)], Srt(SubSeq(s, 1, Len(s) - 1)))
    IN  Srt(rows)

\* s[:10]
Top(s) == SubSeq(s, 1, IF Len(s) < TOP_N THEN Len(s) ELSE TOP_N)

\* seeded fault: models with equal avg_sec come out in reverse input order
TopSlow_TiesReversed(models) ==
    LET eligible == SelectSeq(models, LAMBDA m : m.avg_sec.num > 0)
        backwards == [i \in DOMAIN eligible |-> eligible[Len(eligible) + 1 - i]]
    IN  Top(SortByAvgDesc(backwards))
\* line 232
TopSlow(models) == Top(SortByAvgDesc(SelectSeq(models, LAMBDA m : m.avg_sec.num > 0)))
\* line 233
TopFail(models) == Top(SortByFailuresDesc(SelectSeq(models, LAMBDA m : m.failures > 0)))

\* seeded fault: the comparison with window_cutoff is missing
HistoryPoints_NoCutoff(rlist, window_cutoff) ==
    LET kept == SelectSeq(rlist, LAMBDA r :
                    /\ Truthy(TsOf(r))
                    /\ ParseUtc(TsOf(r)[1]) # None)
    IN  [i \in DOMAIN kept |->
            [x |-> TsOf(kept[i])[1],
             y |-> Rat(NumOr(kept[i].duration_seconds, 0), MINUTE_SECONDS)]]
\* lines 247-263: the points of one dataset inside the last 24 hours
HistoryPoints(rlist, window_cutoff) ==
    LET kept == SelectSeq(rlist, LAMBDA r :
                    /\ Truthy(TsOf(r))
                    /\ ParseUtc(TsOf(r)[1]) # None
                    /\ ParseUtc(TsOf(r)[1])[1] >= window_cutoff)
    IN  [i \in DOMAIN kept |->
            [x |-> TsOf(kept[i])[1],
             y |-> Rat(NumOr(kept[i].duration_seconds, 0), MINUTE_SECONDS)]]

\* seeded fault: ws_lookup.get(ws_id), no fallback to the id
WsLookup_NoDefault(wss, ws_id) ==
    IF WsById(wss, ws_id) = None THEN None ELSE WsById(wss, ws_id)[1].name
\* ws_lookup.get(ws_id, ws_id): the name of the last workspace with that id
\* (None when it has no name), the id itself when the workspace is not listed
WsLookup(wss, ws_id) ==
    IF WsById(wss, ws_id) = None THEN Some(ws_id) ELSE WsById(wss, ws_id)[1].name
\* env_lookup.get(ws_id, "")
EnvLookup(cats, ws_id) ==
    IF HasKey(cats, ws_id) THEN Upper(StrOr(Get(cats, ws_id, EmptyCat).env, "")) ELSE ""
\* model_lookup.get(ds_id, ds_id)
ModelLookup(models_list, ds_id) ==
    IF \E i \in DOMAIN models_list : Mid(models_list[i]) = ds_id
    THEN models_list[CHOOSE i \in DOMAIN models_list :
            /\ Mid(models_list[i]) = ds_id
            /\ \A j \in DOMAIN models_list : Mid(models_list[j]) = ds_id => j <= i].name
    ELSE Some(ds_id)

\* lines 243-273 for the datasets of one workspace
RECURSIVE HistoryOfWorkspace(_, _, _, _, _)
HistoryOfWorkspace(ws_name, env, models_list, ds_map, window_cutoff) ==
    IF ds_map = <<>> THEN <<>>
    ELSE LET points == HistoryPoints(Head(ds_map).v, window_cutoff)
             rest == HistoryOfWorkspace(ws_name, env, models_list, Tail(ds_map), window_cutoff)
         IN  IF points = <<>> THEN rest
             ELSE <<[label |-> [model |-> ModelLookup(models_list, Head(ds_map).k),
                                workspace |-> ws_name],
                     env |-> env,
                     data |-> SortByX(points)]>> \o rest

\* lines 237-273
RECURSIVE History24(_, _, _, _, _)
History24(wss, cats, sem_models, filtered_map, window_cutoff) ==
    IF filtered_map = <<>> THEN <<>>
    ELSE LET ws_id == Head(filtered_map).k
         IN  HistoryOfWorkspace(WsLookup(wss, ws_id), EnvLookup(cats, ws_id),
                                Get(sem_models, ws_id, <<>>), Head(filtered_map).v,
                                window_cutoff)
             \o History24(wss, cats, sem_models, Tail(filtered_map), window_cutoff)

\* the body of the loop at lines 229-284 for one window
Window(wss, cats, sem_models, refreshes, metrics, cut, window_cutoff) ==
    LET in_window == filter_refreshes_by_window(refreshes, cut)
        models == build_performance(wss, cats, sem_models, in_window, FALSE)
    IN  [models |-> models,
         top_slow |-> TopSlow(models),
         top_fail |-> TopFail(models),
         efficient |-> SelectSeq(models, LAMBDA m : m.efficient),
         outliers |-> SelectSeq(models, LAMBDA m : m.outlier),
         history24 |-> History24(wss, cats, sem_models, in_window, window_cutoff),
         capacity |-> build_capacity_series(metrics, cut)]

\* seeded fault: the cutoffs of "24h" and "7d" are exchanged
performance_sets_CutoffsSwapped(wss, cats, sem_models, refreshes, metrics, t) ==
    <<Entry("24h", Window(wss, cats, sem_models, refreshes, metrics,
                          Some(t - WEEK_DAYS * DAY_HOURS), t - DAY_HOURS)),
      Entry("7d", Window(wss, cats, sem_models, refreshes, metrics,
                         Some(t - DAY_HOURS), t - DAY_HOURS)),
      Entry("all", Window(wss, cats, sem_models, refreshes, metrics,
                          None, t - DAY_HOURS))>>
\* the result dict, keys "24h", "7d" and "all" in this order
performance_sets(wss, cats, sem_models, refreshes, metrics, t) ==
    <<Entry("24h", Window(wss, cats, sem_models, refreshes, metrics,
                          Some(t - DAY_HOURS), t - DAY_HOURS)),
      Entry("7d", Window(wss, cats, sem_models, refreshes, metrics,
                         Some(t - WEEK_DAYS * DAY_HOURS), t - DAY_HOURS)),
      Entry("all", Window(wss, cats, sem_models, refreshes, metrics,
                          None, t - DAY_HOURS))>>

\* ------------------------------------------------------------ Model Store
\* the rows of table semantic_models a run can hold, keyed by
\* <<workspace_id, model_id>>; None where the table has no row
StoreKeys == {"w1", "w2"} \X {"m1", "m2"}
EmptyStore == [key \in StoreKeys |-> None]

\* model.get("id") or model.get("model_id"); None when both are missing or empty
DbMid(model) ==
    IF model.id # None /\ model.id # Some("") THEN model.id
    ELSE IF model.model_id # None /\ model.model_id # Some("") THEN model.model_id
    ELSE None

\* model.get("name") or model.get("displayName") or "(unnamed)"
DbName(model) == StrOr(model.name, StrOr(model.displayName, "(unnamed)"))

\* incoming_ids
IncomingIds(models) ==
    {DbMid(models[i])[1] : i \in {j \in DOMAIN models : DbMid(models[j]) # None}}

\* the name the upserts leave for mid: the one of its last model in the list
UpsertedName(models, mid) ==
    DbName(models[CHOOSE i \in DOMAIN models :
                    /\ DbMid(models[i]) = Some(mid)
                    /\ \A j \in DOMAIN models : DbMid(models[j]) = Some(mid) => j <= i])

\* seeded fault: every omission stamps deleted_at again
update_semantic_models_Restamps(table, workspace_id, models, t) ==
    [key \in DOMAIN table |->
        IF key[1] # workspace_id THEN table[key]
        ELSE IF key[2] \in IncomingIds(models)
             THEN Some([name |-> UpsertedName(models, key[2]),
                        added_at |-> IF table[key] = None THEN t ELSE table[key][1].added_at,
                        deleted_at |-> None])
        ELSE IF table[key] = None THEN None
        ELSE Some([table[key][1] EXCEPT !.deleted_at = Some(t)])]
\* update_semantic_models(workspace_id, models) at time t = utcnow(): the
\* table after the transaction commits
update_semantic_models(table, workspace_id, models, t) ==
    [key \in DOMAIN table |->
        IF key[1] # workspace_id THEN table[key]
        ELSE IF key[2] \in IncomingIds(models)
             THEN Some([name |-> UpsertedName(models, key[2]),
                        added_at |-> IF table[key] = None THEN t ELSE table[key][1].added_at,
                        deleted_at |-> None])
        ELSE IF table[key] = None THEN None
        ELSE IF table[key][1].deleted_at = None
             THEN Some([table[key][1] EXCEPT !.deleted_at = Some(t)])
        ELSE table[key]]

\* -------------------------------------------------------- Workspace Cache
\* int(os.environ.get("PBI_WORKSPACE_CACHE_SECONDS", "300"))
CACHE_SECONDS == 300

\* workspace_cache = {"data": None, "expires": 0.0}
EmptyCache == [data |-> None, expires |-> 0]

\* no fetch_workspaces call is running
NoCall == [pc |-> "idle", entered |-> 0]

\* what one run of the connector script yields: its exit code and, when its
\* output parses as JSON, the parsed object (None when json.loads raises)
Output(returncode, parsed) == [returncode |-> returncode, parsed |-> parsed]

\* seeded fault: the expiry instant still counts as cached
CacheHit_Inclusive(cache, t) == cache.data # None /\ t <= cache.expires
CacheHit(cache, t) == cache.data # None /\ t < cache.expires

\* lines 56-63: _run_ps raises on a non-zero exit code, json.loads on
\* unparsable output, and an object without "workspaces" is rejected
Raises(output) ==
    \/ output.returncode # 0
    \/ output.parsed = None
    \/ ~HasKey(output.parsed[1], "workspaces")

\* lines 65-66: the cache after a successful run that ended at time t
Refreshed(output, t) ==
    [data |-> Some(Get(output.parsed[1], "workspaces", <<>>)),
     expires |-> t + CACHE_SECONDS]

\* one completed call: the time it read on entry and the time it ended, how
\* it ended (outcome "hit", "fetched" or "raised"), whether it ran the
\* connector, the list it returned and the cache it left
CallRecord(entered, ended, outcome, invoked, value, cache) ==
    [entered |-> entered, ended |-> ended, outcome |-> outcome, invoked |-> invoked,
     value |-> value, cache |-> cache]

\* ------------------------------------------------------- Schedule Protocol
\* no schedule request is being handled
IdleRequest ==
    [handler |-> "none", pc |-> "idle", workspace_id |-> "", dataset |-> "",
     payload |-> "{}", queue |-> <<>>, calls |-> <<>>, updated |-> <<>>,
     failed |-> <<>>, response |-> None]

\* request.get_json(silent=True) or {}
PayloadOf(body) == IF body = None THEN "{}" ELSE body[1]

Call(fn, dataset, ok) == [fn |-> fn, dataset |-> dataset, ok |-> ok]
Response(ok, status, updated, failed) ==
    Some([ok |-> ok, status |-> status, updated |-> updated, failed |-> failed])

\* the ids of the models the workspace loop does not skip (lines 498-500)
ModelQueue(models_list) ==
    LET named == SelectSeq(models_list, LAMBDA m : m.model_id \notin {None, Some("")}
                                                   \/ m.id \notin {None, Some("")})
    IN  [i \in DOMAIN named |-> Mid(named[i])]

\* set_schedule, lines 470-472: the request up to the first connector call
BeginSetSchedule(workspace_id, dataset_id, body) ==
    LET s == [IdleRequest EXCEPT !.handler = "set_schedule",
                                 !.workspace_id = workspace_id,
                                 !.dataset = dataset_id,
                                 !.payload = PayloadOf(body)]
    IN  IF s.payload = "{}"
        THEN [s EXCEPT !.pc = "done", !.response = Response(FALSE, 400, <<>>, <<>>)]
        ELSE [s EXCEPT !.pc = "takeover"]

\* set_workspace_schedule: the next model of the loop, or the response at 514
NextModel(s) ==
    IF s.queue = <<>>
    THEN [s EXCEPT !.pc = "done", !.dataset = "",
                   !.response = Response(TRUE, 200, s.updated, s.failed)]
    ELSE [s EXCEPT !.pc = "takeover", !.dataset = Head(s.queue), !.queue = Tail(s.queue)]

\* set_workspace_schedule, lines 490-497
BeginSetWorkspaceSchedule(workspace_id, body, models_list) ==
    LET s == [IdleRequest EXCEPT !.handler = "set_workspace_schedule",
                                 !.workspace_id = workspace_id,
                                 !.payload = PayloadOf(body)]
    IN  IF s.payload = "{}"
        THEN [s EXCEPT !.pc = "done", !.response = Response(FALSE, 400, <<>>, <<>>)]
        ELSE NextModel([s EXCEPT !.queue = ModelQueue(models_list)])

\* seeded fault: no inner try around takeover_dataset, its failure ends the attempt
AfterTakeover_FailureAborts(s, ok) ==
    LET t == [s EXCEPT !.calls = Append(@, Call("takeover_dataset", s.dataset, ok))]
    IN  IF ok THEN [t EXCEPT !.pc = "update"]
        ELSE IF s.handler = "set_schedule"
        THEN [t EXCEPT !.pc = "done", !.response = Response(FALSE, 500, <<>>, <<>>)]
        ELSE NextModel([t EXCEPT !.failed = Append(@, s.dataset)])
\* lines 474-477 / 501-504: takeover_dataset returned (ok) or raised
AfterTakeover(s, ok) ==
    [s EXCEPT !.calls = Append(@, Call("takeover_dataset", s.dataset, ok)),
              !.pc = "update"]

\* lines 478, 484-485 / 505, 511-513: update_refresh_schedule returned or raised
AfterUpdate(s, ok) ==
    LET t == [s EXCEPT !.calls = Append(@, Call("update_refresh_schedule", s.dataset, ok))]
    IN  IF ok THEN [t EXCEPT !.pc = "save"]
        ELSE IF s.handler = "set_schedule"
        THEN [t EXCEPT !.pc = "done", !.response = Response(FALSE, 500, <<>>, <<>>)]
        ELSE NextModel([t EXCEPT !.failed = Append(@, s.dataset)])

\* lines 479-483 / 506-510: save_schedule returned or raised
AfterSave(s, ok) ==
    LET t == [s EXCEPT !.calls = Append(@, Call("save_schedule", s.dataset, ok))]
    IN  IF s.handler = "set_schedule"
        THEN [t EXCEPT !.pc = "done", !.response = Response(TRUE, 200, <<>>, <<>>)]
        ELSE NextModel([t EXCEPT !.updated = Append(@, s.dataset)])

\* db.save_schedule: INSERT OR REPLACE, nothing for an empty id
save_schedule(table, workspace_id, dataset_id, schedule) ==
    IF workspace_id = "" \/ dataset_id = "" THEN table
    ELSE [table EXCEPT ![<<workspace_id, dataset_id>>] = Some(schedule)]

\* ------------------------------------------------------------------ inputs
\* the hour of the request, nine days after the epoch
NowHour == 9 * DAY_HOURS

Ts(fmt, wall, off) == Some([fmt |-> fmt, wall |-> wall, off |-> off])
Refresh(start, status, dur) ==
    [start_time |-> start, startTime |-> None, status |-> status, duration_seconds |-> dur]

Model(mid, name) == [model_id |-> Some(mid), id |-> None, name |-> name]

\* refresh records that vary in status and duration
StatusValues == {None, Some("Completed"), Some("COMPLETED"), Some("Failed")}
PerfRecords ==
    {Refresh(Ts("Z", 0, 0), st, d) : st \in StatusValues, d \in {None, Some(90)}}
    \cup {Refresh(Ts("Z", 0, 0), Some("Completed"), Some(d)) :
            d \in {-10, 0, 85, 110, 115, 300, 301}}

OneWorkspace == <<[id |-> "w1", name |-> Some("Sales")]>>
OneCategory == <<Entry("w1", [env |-> Some("prod"), module |-> Some("Finance")])>>
OneModel == <<Entry("w1", <<Model("m1", Some("Ledger"))>>)>>

\* refresh records that vary in the start time: missing, empty, malformed,
\* "Z" form, naive form, explicit-offset form, and one under the startTime key
TimeRecords ==
    {Refresh(st, Some("Completed"), Some(90)) :
        st \in {None, Ts("empty", 0, 0), Ts("bad", 0, 0),
                Ts("Z", 0, 0), Ts("naive", 2, 0), Ts("Z", 6, 0), Ts("offset", 8, 2)}}
    \cup {[start_time |-> None, startTime |-> Ts("Z", 2, 0),
           status |-> Some("Completed"), duration_seconds |-> Some(90)]}
\* lists of a second dataset of the same workspace
OtherLists ==
    {<<>>,
     <<Refresh(Ts("bad", 0, 0), Some("Failed"), None)>>,
     <<Refresh(Ts("Z", 6, 0), Some("Completed"), Some(90)),
       Refresh(Ts("Z", 0, 0), Some("Completed"), Some(90))>>}
Cutoffs == {None, Some(2), Some(7)}
TwoWorkspaceModels ==
    <<Entry("w1", <<Model("m1", Some("Ledger")), Model("m2", None)>>),
      Entry("w2", <<Model("m3", Some("Stock"))>>)>>

\* live workspace lists, category mappings and refresh lists for the summary
LiveLists ==
    LET w1 == [id |-> "w1", name |-> Some("Sales")]
        w2 == [id |-> "w2", name |-> None]
        again == [id |-> "w1", name |-> Some("Sales (copy)")]
    IN  {<<>>, <<w1>>, <<w2>>, <<w1, w2>>, <<w2, w1>>, <<w1, w2, again>>}
CategoryValues ==
    {[env |-> Some("prod"), module |-> Some("Finance")],
     [env |-> Some("dev"), module |-> Some("")],
     [env |-> None, module |-> Some("Finance")]}
CategoryMaps ==
    {<<>>}
    \cup {<<Entry(w, c)>> : w \in {"w1", "w2"}, c \in CategoryValues}
    \cup {<<Entry(w[1], c1), Entry(w[2], c2)>> :
            w \in {<<"w1", "w2">>, <<"w2", "w1">>},
            c1 \in CategoryValues, c2 \in CategoryValues}
\* newest first: a failed 400 s run after a completed 200 s run
ScenarioList ==
    <<Refresh(Ts("Z", 24, 0), Some("Failed"), Some(400)),
      Refresh(Ts("Z", 0, 0), Some("Completed"), Some(200))>>
SummaryLists ==
    {<<>>, ScenarioList,
     <<ScenarioList[2], ScenarioList[1]>>,
     <<Refresh(Ts("Z", 0, 0), None, None)>>}
ModelPerWorkspace ==
    <<Entry("w1", <<Model("m1", Some("Ledger"))>>),
      Entry("w2", <<Model("m2", None)>>)>>

\* inputs of the ranking: up to MaxModels models in one workspace
ModelIds ==
    <<"m01", "m02", "m03", "m04", "m05", "m06", "m07", "m08", "m09", "m10",
      "m11", "m12", "m13", "m14", "m15", "m16">>
\* refresh lists, newest first, with start times inside the last day, inside
\* the last week and older
RankedLists ==
    {<<>>,
     <<Refresh(Ts("Z", NowHour - 1, 0), Some("Completed"), Some(100))>>,
     <<Refresh(Ts("Z", NowHour - 1, 0), Some("Failed"), Some(300)),
       Refresh(Ts("Z", NowHour - 4 * DAY_HOURS, 0), Some("Completed"), Some(100))>>,
     <<Refresh(Ts("Z", NowHour - 2, 0), Some("Failed"), None),
       Refresh(Ts("Z", NowHour - 8 * DAY_HOURS, 0), Some("failed"), Some(100))>>}
Sample(ts, val) == [ts |-> ts, timestamp |-> None, cu |-> None, value |-> val]
CapacityLists ==
    {<<>>,
     <<Sample(Ts("Z", NowHour - 8 * DAY_HOURS, 0), Some(7)),
       Sample(Ts("Z", NowHour - 2 * DAY_HOURS, 0), Some(5)),
       Sample(Ts("Z", NowHour - 1, 0), None),
       Sample(Ts("naive", NowHour - 1, 0), Some(9))>>}

\* the refresh list the inputs hold for a model (refresh_map.get(mid) or [])
RefreshListOf(ws_id, mid) == Get(Get(refreshes_by_ws, ws_id, <<>>), mid, <<>>)

\* --------------------------------------------------------- specification
NothingComputed ==
    /\ pc = "ready"
    /\ perf = <<>>
    /\ summary = [summary |-> <<>>, ws_stats |-> <<>>]
    /\ filtered = <<>>
    /\ refiltered = <<>>
    /\ freq = <<>>
    /\ sets = <<>>
    /\ skip_flag = FALSE
    /\ stored = EmptyStore
    /\ clock = 0
    /\ fetch_log = <<>>
    /\ sched = IdleRequest
    /\ schedules = [key \in StoreKeys |-> None]
    /\ served = 0
    /\ workspace_cache = EmptyCache
    /\ unix_time = 1
    /\ ws_call = NoCall
    /\ ws_calls = <<>>

\* One request computes one result from the snapshot it was given.
Init ==
    /\ workspaces = OneWorkspace
    /\ categories = OneCategory
    /\ semantic_models = OneModel
    /\ refreshes_by_ws \in
         {<<Entry("w1", <<Entry("m1", rl)>>)>> : rl \in BoundedSeq(PerfRecords, MaxLen)}
         \cup {<<>>, <<Entry("w1", <<>>)>>}
    /\ capacity_metrics = <<>>
    /\ cutoff = None
    /\ now = NowHour
    /\ NothingComputed

BuildPerformance ==
    /\ pc = "ready"
    /\ \E skip_empty \in BOOLEAN :
         /\ perf' = build_performance(workspaces, categories, semantic_models,
                                      refreshes_by_ws, skip_empty)
         /\ skip_flag' = skip_empty
    /\ pc' = "build_performance"
    /\ UNCHANGED <<inputs, summary, filtered, refiltered, freq, sets, db, scheduling, caching>>

BuildSummary ==
    /\ pc = "ready"
    /\ summary' = build_summary(workspaces, categories, semantic_models, refreshes_by_ws)
    /\ pc' = "build_summary"
    /\ UNCHANGED <<inputs, perf, filtered, refiltered, freq, sets, skip_flag, db, scheduling, caching>>

Next == BuildPerformance \/ BuildSummary

Spec == Init /\ [][Next]_vars

\* ------------------------------------------------------------------ claims
CompletedSpellings == {Some("completed"), Some("Completed"), Some("COMPLETED")}

\* C1: in every record build_performance returns, failures + successes equals
\* total, total is the length of the model's refresh list, failures counts the
\* records whose status is not "completed" in any letter case (a missing
\* status included) and successes counts the others.
C1_CountsAddUp ==
    pc = "build_performance" =>
        \A i \in DOMAIN perf :
            LET row == perf[i]
                rl == RefreshListOf(row.workspace_id, row.model_id)
                bad == {j \in DOMAIN rl : rl[j].status \notin CompletedSpellings}
            IN  /\ row.failures + row.successes = row.total
                /\ row.total = Len(rl)
                /\ row.failures = Cardinality(bad)
                /\ row.successes = Len(rl) - Cardinality(bad)

C1_Witness ==
    /\ pc = "build_performance"
    /\ \E i \in DOMAIN perf :
         LET rl == RefreshListOf(perf[i].workspace_id, perf[i].model_id)
         IN  /\ perf[i].failures = 2
             /\ perf[i].successes = 1
             /\ \E j \in DOMAIN rl : rl[j].status = None
             /\ \E j \in DOMAIN rl : rl[j].status = Some("COMPLETED")

\* C2: a model is an outlier iff avg_sec > 0 and last_sec > avg_sec * 1.1,
\* last_sec being the head record's duration (0 when missing); at avg 100 a
\* last duration of 115 is an outlier and one of exactly 110 is not.
C2_OutlierStrict ==
    pc = "build_performance" =>
        \A i \in DOMAIN perf :
            LET row == perf[i]
                rl == RefreshListOf(row.workspace_id, row.model_id)
                head == IF rl = <<>> \/ rl[1].duration_seconds = None
                        THEN 0 ELSE rl[1].duration_seconds[1]
            IN  /\ row.last_sec = head
                /\ row.outlier <=>
                     (/\ row.avg_sec.num > 0
                      /\ row.last_sec * row.avg_sec.den * 10 > row.avg_sec.num * 11)
                /\ (RatEq(row.avg_sec, Rat(100, 1)) /\ row.last_sec = 115) => row.outlier
                /\ (RatEq(row.avg_sec, Rat(100, 1)) /\ row.last_sec = 110) => ~row.outlier

C2_Witness ==
    /\ pc = "build_performance"
    /\ \E i \in DOMAIN perf :
         /\ RatEq(perf[i].avg_sec, Rat(100, 1))
         /\ perf[i].last_sec = 110
         /\ ~perf[i].outlier

C2_WitnessAbove ==
    /\ pc = "build_performance"
    /\ \E i \in DOMAIN perf :
         /\ RatEq(perf[i].avg_sec, Rat(100, 1))
         /\ perf[i].last_sec = 115
         /\ perf[i].outlier

\* ------------------------------------------- specification: start times
InitTime ==
    /\ workspaces = OneWorkspace
    /\ categories = OneCategory
    /\ semantic_models = TwoWorkspaceModels
    /\ refreshes_by_ws \in
         {<<Entry("w1", <<Entry("m1", rl), Entry("m2", other)>>), Entry("w2", <<>>)>> :
            rl \in BoundedSeq(TimeRecords, MaxLen), other \in OtherLists}
    /\ capacity_metrics = <<>>
    /\ cutoff \in Cutoffs
    /\ now = NowHour
    /\ NothingComputed

FilterRefreshes ==
    /\ pc = "ready"
    /\ filtered' = filter_refreshes_by_window(refreshes_by_ws, cutoff)
    /\ pc' = "filter_refreshes_by_window"
    /\ UNCHANGED <<inputs, perf, summary, refiltered, freq, sets, skip_flag, db, scheduling, caching>>

\* the filter applied to its own result with the same cutoff
FilterAgain ==
    /\ pc = "filter_refreshes_by_window"
    /\ refiltered' = filter_refreshes_by_window(filtered, cutoff)
    /\ pc' = "filter_again"
    /\ UNCHANGED <<inputs, perf, summary, filtered, freq, sets, skip_flag, db, scheduling, caching>>

\* workspace_detail: compute_avg_interval_hours(load_refreshes(workspace_id))
ComputeAvgInterval ==
    /\ pc = "ready"
    /\ \E w \in DOMAIN refreshes_by_ws :
         freq' = Entry(refreshes_by_ws[w].k, compute_avg_interval_hours(refreshes_by_ws[w].v))
    /\ pc' = "compute_avg_interval_hours"
    /\ UNCHANGED <<inputs, perf, summary, filtered, refiltered, sets, skip_flag, db, scheduling, caching>>

NextTime == FilterRefreshes \/ FilterAgain \/ ComputeAvgInterval \/ BuildPerformance

SpecTime == InitTime /\ [][NextTime]_vars

\* the start time a record carries, if it is present and parses
HasInstant(r) == Truthy(TsOf(r)) /\ ParseUtc(TsOf(r)[1]) # None
Instant(r) == ParseUtc(TsOf(r)[1])[1]
Malformed(r) == Truthy(TsOf(r)) /\ ParseUtc(TsOf(r)[1]) = None

\* a list of exactly three timed records, at T, T+2h and T+6h in any order,
\* whose other records carry no start time
ThreeRefreshes(rl) ==
    LET timed == {j \in DOMAIN rl : HasInstant(rl[j])}
    IN  /\ \A j \in DOMAIN rl : ~Malformed(rl[j])
        /\ Cardinality(timed) = 3
        /\ \E j \in timed :
             {Instant(rl[i]) : i \in timed} =
                {Instant(rl[j]), Instant(rl[j]) + 2, Instant(rl[j]) + 6}

\* both estimators report a mean gap of `hours` and its reciprocal on such lists
ThreeRefreshesYield(hours) ==
    /\ pc = "build_performance" =>
         \A i \in DOMAIN perf :
            ThreeRefreshes(RefreshListOf(perf[i].workspace_id, perf[i].model_id)) =>
               /\ RatEq(perf[i].avg_interval_hours, hours)
               /\ RatEq(perf[i].freq_per_hour, Rat(hours.den, hours.num))
    /\ pc = "compute_avg_interval_hours" =>
         \A i \in DOMAIN freq.v :
            ThreeRefreshes(RefreshListOf(freq.k, freq.v[i].k)) =>
               RatEq(freq.v[i].v, hours)

\* C3 as stated: start times T, T+2h, T+6h give a mean interval of 4 hours
\* and freq_per_hour 0.25, in compute_avg_interval_hours and build_performance.
C3_MeanIsFourHours == ThreeRefreshesYield(Rat(4, 1))

\* C3 amended: start times T, T+2h, T+6h, in any list order, give a mean
\* interval of 3 hours (gaps 2h and 4h) and freq_per_hour 1/3, in
\* compute_avg_interval_hours and build_performance.
C3_MeanIsThreeHours == ThreeRefreshesYield(Rat(3, 1))

C3_Witness ==
    /\ pc = "build_performance"
    /\ \E i \in DOMAIN perf :
         LET rl == RefreshListOf(perf[i].workspace_id, perf[i].model_id)
         IN  /\ ThreeRefreshes(rl)
             /\ Instant(rl[1]) > Instant(rl[2])
             /\ Instant(rl[3]) > Instant(rl[2])
             /\ RatEq(perf[i].avg_interval_hours, Rat(3, 1))

\* C4: a record whose start time is malformed is skipped, so for every refresh
\* list the avg_interval_hours and freq_per_hour build_performance reports
\* equal the mean gap, and its reciprocal, that compute_avg_interval_hours
\* computes over the valid start times of the same list.
C4_CadenceSkipsMalformed ==
    pc = "build_performance" =>
        \A i \in DOMAIN perf :
            LET by_ds == compute_avg_interval_hours(Get(refreshes_by_ws, perf[i].workspace_id, <<>>))
                estimate == Get(by_ds, perf[i].model_id, Zero)
            IN  /\ RatEq(perf[i].avg_interval_hours, estimate)
                /\ RatEq(perf[i].freq_per_hour, Reciprocal(estimate))

\* C5: a model is listed in build_summary's slow_models iff its
\* build_performance record has outlier = TRUE, for the same refresh list,
\* whatever its durations (missing, zero or negative).
C5_SlowAgreesWithOutlier ==
    pc = "build_performance" =>
        LET ws_stats == build_summary(workspaces, categories, semantic_models,
                                      refreshes_by_ws).ws_stats
        IN  \A i \in DOMAIN perf :
               HasKey(ws_stats, perf[i].workspace_id) =>
                  LET slow_models == Get(ws_stats, perf[i].workspace_id, <<>>).slow_models
                  IN  perf[i].outlier <=>
                         (\E j \in DOMAIN slow_models : slow_models[j] = perf[i].model_name)

\* ------------------------------------------------ specification: summary
InitSummary ==
    /\ workspaces \in LiveLists
    /\ categories \in CategoryMaps
    /\ semantic_models = ModelPerWorkspace
    /\ refreshes_by_ws \in
         {<<Entry("w1", <<Entry("m1", rl)>>), Entry("w2", <<Entry("m2", ScenarioList)>>)>> :
            rl \in SummaryLists}
    /\ capacity_metrics = <<>>
    /\ cutoff = None
    /\ now = NowHour
    /\ NothingComputed

NextSummary == BuildSummary \/ BuildPerformance

SpecSummary == InitSummary /\ [][NextSummary]_vars

\* the summary scenario: workspace w1 is live, categorized {prod, Finance},
\* and its one model has the refresh list [Failed 400 s, Completed 200 s]
ScenarioInputs ==
    /\ \E i \in DOMAIN workspaces : workspaces[i].id = "w1"
    /\ HasKey(categories, "w1")
    /\ Get(categories, "w1", EmptyCat) = [env |-> Some("prod"), module |-> Some("Finance")]
    /\ Get(semantic_models, "w1", <<>>) = <<Model("m1", Some("Ledger"))>>
    /\ RefreshListOf("w1", "m1") = ScenarioList

\* the entries of workspace ws_id in summary[module][env]
EntriesUnder(module, env, ws_id) ==
    SelectSeq(Get(Get(summary.summary, module, <<>>), env, <<>>), LAMBDA e : e.id = ws_id)

ScenarioEntryUnder(env) ==
    LET found == EntriesUnder("Finance", env, "w1")
    IN  /\ Len(found) = 1
        /\ found[1].failed_count = 1
        /\ found[1].failed_models = <<"Ledger">>
        /\ found[1].slow_count = 1

\* C6 as stated: in the scenario build_summary places the workspace under
\* module "Finance" and environment "PROD" with failed_count 1,
\* failed_models [model name] and slow_count 1.
C6_ScenarioUnderUpperEnv ==
    (pc = "build_summary" /\ ScenarioInputs) => ScenarioEntryUnder("PROD")

\* C6 amended: in the scenario build_summary places the workspace under
\* module "Finance" and environment "prod", the category's env as stored,
\* and under no other module or environment, with failed_count 1,
\* failed_models [model name] and slow_count 1.
C6_ScenarioUnderStoredEnv ==
    (pc = "build_summary" /\ ScenarioInputs) =>
        /\ ScenarioEntryUnder("prod")
        /\ \A i \in DOMAIN summary.summary :
              \A j \in DOMAIN summary.summary[i].v :
                 (\E n \in DOMAIN summary.summary[i].v[j].v :
                     summary.summary[i].v[j].v[n].id = "w1")
                 => (summary.summary[i].k = "Finance" /\ summary.summary[i].v[j].k = "prod")

C6_Witness ==
    /\ pc = "build_summary"
    /\ ScenarioInputs
    /\ Len(workspaces) = 1
    /\ Len(categories) = 1
    /\ ScenarioEntryUnder("prod")

\* the records of rl whose start time parses to an instant >= c, in order
InWindow(rl, c) == SelectSeq(rl, LAMBDA r : HasInstant(r) /\ Instant(r) >= c)

C7_FilteredShape ==
    (pc = "filter_refreshes_by_window" /\ cutoff # None) =>
        /\ DictKeys(filtered) = DictKeys(refreshes_by_ws)
        /\ \A w \in DOMAIN filtered :
              /\ DictKeys(filtered[w].v) = DictKeys(refreshes_by_ws[w].v)
              /\ \A d \in DOMAIN filtered[w].v :
                    filtered[w].v[d].v = InWindow(refreshes_by_ws[w].v[d].v, cutoff[1])

\* C7: with a cutoff C the filter returns the same workspace keys and dataset
\* keys, each list being the subsequence, in order, of the records whose start
\* time parses and is >= C (boundary included; missing and unparseable start
\* times dropped), and the input mapping is left as it was.
C7_FilterKeepsWindow ==
    /\ []C7_FilteredShape
    /\ [][refreshes_by_ws' = refreshes_by_ws]_vars

C7_Witness ==
    /\ pc = "filter_refreshes_by_window"
    /\ cutoff = Some(2)
    /\ \E w \in DOMAIN filtered : \E d \in DOMAIN filtered[w].v :
         LET before == refreshes_by_ws[w].v[d].v
             after == filtered[w].v[d].v
         IN  /\ Len(before) = 3
             /\ Len(after) = 1
             /\ Instant(after[1]) = 2
             /\ \E j \in DOMAIN before : Malformed(before[j])
             /\ \E j \in DOMAIN before : HasInstant(before[j]) /\ Instant(before[j]) < 2

\* C8: filtering an already filtered mapping again with the same cutoff gives
\* the same mapping.
C8_FilterIdempotent == pc = "filter_again" => refiltered = filtered

C8_Witness ==
    /\ pc = "filter_again"
    /\ cutoff # None
    /\ filtered # refreshes_by_ws
    /\ refiltered = filtered
    /\ \E w \in DOMAIN filtered : \E d \in DOMAIN filtered[w].v : filtered[w].v[d].v # <<>>

\* C9: without a cutoff the filter returns its input mapping, records with
\* missing or unparseable start times included.
C9_NoCutoffIsIdentity ==
    (pc = "filter_refreshes_by_window" /\ cutoff = None) => filtered = refreshes_by_ws

C9_Witness ==
    /\ pc = "filter_refreshes_by_window"
    /\ cutoff = None
    /\ filtered = refreshes_by_ws
    /\ \E w \in DOMAIN filtered : \E d \in DOMAIN filtered[w].v :
         LET rl == filtered[w].v[d].v
         IN  /\ \E j \in DOMAIN rl : Malformed(rl[j])
             /\ \E j \in DOMAIN rl : TsOf(rl[j]) = None

\* ------------------------------------------------ specification: rankings
InitTop ==
    /\ workspaces \in {<<>>, OneWorkspace}
    /\ categories = OneCategory
    /\ \E n \in 0..MaxModels : \E pattern \in [1..PatternLen -> RankedLists] :
         /\ semantic_models = <<Entry("w1", [i \in 1..n |-> Model(ModelIds[i], None)])>>
         /\ refreshes_by_ws =
              <<Entry("w1", [i \in 1..n |->
                               Entry(ModelIds[i], pattern[((i - 1) % PatternLen) + 1])])>>
    /\ capacity_metrics \in CapacityLists
    /\ cutoff = None
    /\ now = NowHour
    /\ NothingComputed

\* performance(): performance_sets over the loaded snapshot
PerformanceSets ==
    /\ pc = "ready"
    /\ sets' = performance_sets(workspaces, categories, semantic_models,
                                refreshes_by_ws, capacity_metrics, now)
    /\ pc' = "performance_sets"
    /\ UNCHANGED <<inputs, perf, summary, filtered, refiltered, freq, skip_flag, db, scheduling, caching>>

NextTop == PerformanceSets

SpecTop == InitTop /\ [][NextTop]_vars

Min(a, b) == IF a < b THEN a ELSE b

\* `top` lists the first at most 10 of the rows at positions `eligible`,
\* ordered by Before (metric descending, then position in `models`)
IsRanking(top, models, eligible, Before(_, _)) ==
    LET rank(i) == Cardinality({j \in eligible : Before(j, i)}) + 1
    IN  /\ Len(top) = Min(10, Cardinality(eligible))
        /\ \A i \in eligible : rank(i) <= 10 => top[rank(i)] = models[i]

\* C10: in every window top_slow is the first at most 10 of the models with
\* avg_sec > 0 by avg_sec descending and top_fail the first at most 10 of the
\* models with failures > 0 by failures descending, models with an equal
\* metric keeping their order in the models list.
C10_TopTenStable ==
    pc = "performance_sets" =>
        \A w \in DOMAIN sets :
            LET models == sets[w].v.models
                avg(i) == models[i].avg_sec
                fails(i) == models[i].failures
            IN  /\ IsRanking(sets[w].v.top_slow, models,
                             {i \in DOMAIN models : avg(i).num * avg(i).den > 0},
                             LAMBDA j, i :
                                \/ avg(j).num * avg(i).den > avg(i).num * avg(j).den
                                \/ avg(j).num * avg(i).den = avg(i).num * avg(j).den /\ j < i)
                /\ IsRanking(sets[w].v.top_fail, models,
                             {i \in DOMAIN models : fails(i) > 0},
                             LAMBDA j, i : fails(j) > fails(i) \/ (fails(j) = fails(i) /\ j < i))

\* eleven models with avg_sec > 0, so one is cut off, and it ties with a
\* model that stays
C10_Witness ==
    /\ pc = "performance_sets"
    /\ \E w \in DOMAIN sets :
         LET models == sets[w].v.models
             top == sets[w].v.top_slow
         IN  /\ Len(models) = 11
             /\ \A i \in DOMAIN models : models[i].avg_sec.num > 0
             /\ Len(top) = 10
             /\ RatLt(top[10].avg_sec, top[1].avg_sec)
             /\ \E i \in DOMAIN models :
                  /\ \A k \in DOMAIN top : top[k] # models[i]
                  /\ RatEq(models[i].avg_sec, top[10].avg_sec)

\* ------------------------------------------------- specification: windows
\* capacity samples: no timestamp, malformed timestamp, no value, value 0,
\* the three timestamp forms, and one under the timestamp/cu keys
CapacitySamples ==
    {Sample(None, Some(5)),
     Sample(Ts("bad", 0, 0), Some(5)),
     Sample(Ts("Z", NowHour - 1, 0), None),
     Sample(Ts("Z", NowHour - 1, 0), Some(0)),
     Sample(Ts("offset", NowHour, 2), Some(5)),
     Sample(Ts("naive", NowHour - 30, 0), Some(6)),
     Sample(Ts("Z", NowHour - 200, 0), Some(7)),
     [ts |-> None, timestamp |-> Ts("Z", NowHour - 3, 0), cu |-> Some(8), value |-> Some(1)]}

\* refresh records around the two window cutoffs
WindowRecords ==
    {Refresh(None, Some("Completed"), Some(90)),
     Refresh(Ts("bad", 0, 0), Some("Failed"), Some(90)),
     Refresh(Ts("Z", NowHour - 1, 0), Some("Completed"), Some(100)),
     Refresh(Ts("offset", NowHour + 1, 3), Some("Failed"), None),
     Refresh(Ts("naive", NowHour - DAY_HOURS, 0), Some("Completed"), Some(300)),
     Refresh(Ts("Z", NowHour - DAY_HOURS - 1, 0), Some("Failed"), Some(50)),
     Refresh(Ts("Z", NowHour - WEEK_DAYS * DAY_HOURS, 0), Some("Completed"), Some(60)),
     Refresh(Ts("Z", NowHour - WEEK_DAYS * DAY_HOURS - 1, 0), Some("Completed"), Some(70))}

\* the list of a second dataset, and of a dataset of another workspace that
\* is not among the stored models
MixedList ==
    <<Refresh(Ts("Z", NowHour - 2, 0), Some("Completed"), Some(120)),
      Refresh(Ts("Z", NowHour - 2 * DAY_HOURS, 0), Some("Failed"), Some(30)),
      Refresh(Ts("Z", NowHour - 8 * DAY_HOURS, 0), Some("Completed"), Some(40))>>
WindowMaps ==
    {<<Entry("w1", <<Entry("m1", rl), Entry("m2", MixedList)>>),
       Entry("w2", <<Entry("m9", MixedList)>>)>> :
        rl \in BoundedSeq(WindowRecords, MaxLen)}
WindowLiveLists ==
    {<<>>,
     <<[id |-> "w2", name |-> None], [id |-> "w1", name |-> Some("Sales")]>>}

InitWindows ==
    /\ workspaces \in WindowLiveLists
    /\ categories = OneCategory
    /\ semantic_models = TwoWorkspaceModels
    /\ \/ /\ refreshes_by_ws \in WindowMaps
          /\ capacity_metrics \in CapacityLists \ {<<>>}
       \/ /\ refreshes_by_ws = <<Entry("w1", <<Entry("m2", MixedList)>>)>>
          /\ capacity_metrics \in BoundedSeq(CapacitySamples, MaxLen)
    /\ cutoff = None
    /\ now = NowHour
    /\ NothingComputed

NextWindows == PerformanceSets \/ BuildPerformance

SpecWindows == InitWindows /\ [][NextWindows]_vars

\* the points of a series are in ascending order of their instants
AscendingInTime(series) ==
    \A i \in DOMAIN series : \A j \in DOMAIN series :
        i < j => ParseUtc(series[i].x)[1] <= ParseUtc(series[j].x)[1]

\* every point of the capacity series of window w comes from a sample that
\* has both a timestamp and a value
PointsComplete(series) ==
    \A i \in DOMAIN series :
        \E k \in DOMAIN capacity_metrics :
            LET p == capacity_metrics[k]
            IN  /\ series[i].x \in {p.ts[j] : j \in DOMAIN p.ts}
                                   \cup {p.timestamp[j] : j \in DOMAIN p.timestamp}
                /\ series[i].y \in {p.cu[j] : j \in DOMAIN p.cu}
                                   \cup {p.value[j] : j \in DOMAIN p.value}
                /\ ParseUtc(series[i].x) # None

\* C11: for every list of capacity samples and every cutoff, the capacity
\* series is in ascending order of time, also when the timestamp strings use
\* different formats or offsets, and has no point with a missing timestamp
\* or a missing value.
C11_CapacitySortedInTime ==
    pc = "performance_sets" =>
        \A w \in DOMAIN sets :
            /\ PointsComplete(sets[w].v.capacity)
            /\ AscendingInTime(sets[w].v.capacity)

\* the half of C11 that does hold: no point lacks a timestamp or a value
C11_PointsComplete ==
    pc = "performance_sets" =>
        \A w \in DOMAIN sets : PointsComplete(sets[w].v.capacity)

\* ------------------------------------------------ claims on Spec, continued
\* the rows of perf for model mid of workspace ws_id
RowsOf(ws_id, mid) ==
    {i \in DOMAIN perf : perf[i].workspace_id = ws_id /\ perf[i].model_id = mid}

\* C12: for every model with zero refresh records (absent from the refresh
\* map or mapped to an empty list) build_performance without skip_empty
\* returns a record with avg_sec, last_sec, freq_per_hour, avg_interval_hours
\* and total all 0, outlier false and efficient false.
C12_EmptyModelAllZero ==
    (pc = "build_performance" /\ ~skip_flag) =>
        \A w \in DOMAIN semantic_models :
            \A m \in DOMAIN semantic_models[w].v :
                LET ws_id == semantic_models[w].k
                    mid == Mid(semantic_models[w].v[m])
                IN  RefreshListOf(ws_id, mid) = <<>> =>
                        /\ RowsOf(ws_id, mid) # {}
                        /\ \A i \in RowsOf(ws_id, mid) :
                             /\ perf[i].avg_sec.num = 0
                             /\ perf[i].last_sec = 0
                             /\ perf[i].freq_per_hour.num = 0
                             /\ perf[i].avg_interval_hours.num = 0
                             /\ perf[i].total = 0
                             /\ ~perf[i].outlier
                             /\ ~perf[i].efficient

\* the model's dataset is mapped to an empty list
C12_Witness ==
    /\ pc = "build_performance"
    /\ ~skip_flag
    /\ refreshes_by_ws = <<Entry("w1", <<Entry("m1", <<>>)>>)>>
    /\ Len(perf) = 1
    /\ perf[1].total = 0
    /\ ~perf[1].efficient

\* the workspace is absent from the refresh map
C12_WitnessAbsent ==
    /\ pc = "build_performance"
    /\ ~skip_flag
    /\ refreshes_by_ws = <<>>
    /\ Len(perf) = 1
    /\ perf[1].total = 0

\* C13: for a model with exactly one refresh record, of duration D and status
\* "Completed" in any letter case, build_performance returns avg_sec = D,
\* last_sec = D, outlier false and efficient exactly when 0 < D <= 300.
C13_SingleCompletedRecord ==
    pc = "build_performance" =>
        \A i \in DOMAIN perf :
            LET rl == RefreshListOf(perf[i].workspace_id, perf[i].model_id)
            IN  (/\ Len(rl) = 1
                 /\ rl[1].status \in CompletedSpellings
                 /\ rl[1].duration_seconds # None) =>
                    LET D == rl[1].duration_seconds[1]
                    IN  /\ perf[i].avg_sec.num = D * perf[i].avg_sec.den
                        /\ perf[i].last_sec = D
                        /\ ~perf[i].outlier
                        /\ perf[i].efficient <=> (0 < D /\ D <= 300)

\* one completed record of exactly 300 seconds is efficient
C13_Witness ==
    /\ pc = "build_performance"
    /\ \E i \in DOMAIN perf :
         LET rl == RefreshListOf(perf[i].workspace_id, perf[i].model_id)
         IN  /\ Len(rl) = 1
             /\ rl[1].status \in CompletedSpellings
             /\ rl[1].duration_seconds = Some(300)
             /\ perf[i].last_sec = 300
             /\ perf[i].efficient

\* ---------------------------------------------- claims on SpecWindows, continued
\* the value the result holds under window key
WindowOf(key) == Get(sets, key, <<>>)

\* the number of points in a history24 list
RECURSIVE PointCount(_)
PointCount(history) ==
    IF history = <<>> THEN 0 ELSE Len(Head(history).data) + PointCount(Tail(history))

\* the records of the refresh map that start inside the last 24 hours
RecentRecords ==
    UNION {UNION {{<<w, d, i>> : i \in {j \in DOMAIN refreshes_by_ws[w].v[d].v :
                      LET ts == TsOf(refreshes_by_ws[w].v[d].v[j])
                      IN  /\ Truthy(ts)
                          /\ ParseUtc(ts[1]) # None
                          /\ ParseUtc(ts[1])[1] >= now - DAY_HOURS}} :
                  d \in DOMAIN refreshes_by_ws[w].v} :
           w \in DOMAIN refreshes_by_ws}

\* C14: in one performance_sets result the history24 lists of the "24h", "7d"
\* and "all" windows are equal; every point has a parseable start time at or
\* after now - 24h, and every record of the last 24 hours has its point.
C14_HistoryIsLastDay ==
    pc = "performance_sets" =>
        /\ WindowOf("24h").history24 = WindowOf("7d").history24
        /\ WindowOf("7d").history24 = WindowOf("all").history24
        /\ PointCount(WindowOf("all").history24) = Cardinality(RecentRecords)
        /\ \A h \in DOMAIN WindowOf("all").history24 :
             \A k \in DOMAIN WindowOf("all").history24[h].data :
                LET x == WindowOf("all").history24[h].data[k].x
                IN  /\ ParseUtc(x) # None
                    /\ ParseUtc(x)[1] >= now - DAY_HOURS

\* the windows differ in their models while history24 is not empty: a record
\* older than a day is counted by "7d" and one exactly a day old has its point
C14_Witness ==
    /\ pc = "performance_sets"
    /\ \E i \in DOMAIN WindowOf("7d").models :
         WindowOf("24h").models[i].total < WindowOf("7d").models[i].total
    /\ \E h \in DOMAIN WindowOf("24h").history24 :
         \E k \in DOMAIN WindowOf("24h").history24[h].data :
            ParseUtc(WindowOf("24h").history24[h].data[k].x) = Some(now - DAY_HOURS)

\* ---------------------------------------------- claims on SpecSummary, continued
LiveIds == {workspaces[i].id : i \in DOMAIN workspaces}
CategorizedIds == {categories[i].k : i \in DOMAIN categories}

\* every position <<module, env, index>> of the summary that holds ws_id
Occurrences(ws_id) ==
    UNION {UNION {{<<m, e, i>> : i \in {j \in DOMAIN summary.summary[m].v[e].v :
                                          summary.summary[m].v[e].v[j].id = ws_id}} :
                  e \in DOMAIN summary.summary[m].v} :
           m \in DOMAIN summary.summary}

\* the bucket the category of ws_id names
ModuleOfCategory(ws_id) ==
    LET module == Get(categories, ws_id, EmptyCat).module
    IN  IF module = None \/ module = Some("") THEN "Unassigned module" ELSE module[1]
EnvOfCategory(ws_id) ==
    LET env == Get(categories, ws_id, EmptyCat).env
    IN  IF env = None \/ env = Some("") THEN "unspecified" ELSE env[1]

\* C15: a workspace appears in build_summary's output iff it has a category
\* entry and its id is in the live workspace list; every included workspace
\* appears exactly once, in the module/env bucket of its category, and the
\* keys of the per-workspace stats map are exactly the included ids.
C15_SummaryInclusion ==
    pc = "build_summary" =>
        /\ \A ws_id \in LiveIds \cup CategorizedIds :
             IF ws_id \in LiveIds \cap CategorizedIds
             THEN /\ Cardinality(Occurrences(ws_id)) = 1
                  /\ Len(EntriesUnder(ModuleOfCategory(ws_id), EnvOfCategory(ws_id), ws_id)) = 1
             ELSE Occurrences(ws_id) = {}
        /\ {summary.ws_stats[i].k : i \in DOMAIN summary.ws_stats} = LiveIds \cap CategorizedIds
        /\ Len(summary.ws_stats) = Cardinality(LiveIds \cap CategorizedIds)

\* two categorized workspaces of one module, one of them live twice; a
\* second summary with a stale category is C15_WitnessStale
C15_Witness ==
    /\ pc = "build_summary"
    /\ Len(workspaces) = 3
    /\ CategorizedIds = {"w1", "w2"}
    /\ ModuleOfCategory("w1") = ModuleOfCategory("w2")
    /\ Cardinality(Occurrences("w1")) = 1
    /\ Cardinality(Occurrences("w2")) = 1

\* w1 has a category but is not live, w2 is live and categorized
C15_WitnessStale ==
    /\ pc = "build_summary"
    /\ LiveIds = {"w2"}
    /\ CategorizedIds = {"w1", "w2"}
    /\ Occurrences("w1") = {}
    /\ Cardinality(Occurrences("w2")) = 1

\* w2 is live but has no category
C15_WitnessUncategorized ==
    /\ pc = "build_summary"
    /\ LiveIds = {"w1", "w2"}
    /\ CategorizedIds = {"w1"}
    /\ Occurrences("w2") = {}
    /\ Cardinality(Occurrences("w1")) = 1

\* <<workspace id, model id>> of every stored semantic model, in iteration order
RECURSIVE StoredModels(_)
StoredModels(sem_models) ==
    IF sem_models = <<>> THEN <<>>
    ELSE [i \in DOMAIN Head(sem_models).v |->
            <<Head(sem_models).k, Mid(Head(sem_models).v[i])>>]
         \o StoredModels(Tail(sem_models))
\* the same pair for every row of a models list
RowKeys(rows) == [i \in DOMAIN rows |-> <<rows[i].workspace_id, rows[i].model_id>>]

\* history entry h was built from dataset d of workspace w of the refresh map
HistoryFrom(h, w, d) ==
    LET ws_id == refreshes_by_ws[w].k
        ds == refreshes_by_ws[w].v[d]
    IN  /\ h.label.workspace = Some(ws_id)
        /\ h.label.model = ModelLookup(Get(semantic_models, ws_id, <<>>), ds.k)
        /\ \A k \in DOMAIN h.data : \E i \in DOMAIN ds.v : TsOf(ds.v[i]) = Some(h.data[k].x)

\* C16: with an empty live workspace list performance_sets still returns the
\* windows "24h", "7d" and "all", each with one model record per stored
\* semantic model; workspace_name equals workspace_id in every model record
\* and every history24 label carries the workspace id.
C16_EmptyWorkspaceList ==
    (pc = "performance_sets" /\ workspaces = <<>>) =>
        /\ DictKeys(sets) = <<"24h", "7d", "all">>
        /\ \A w \in DOMAIN sets :
             /\ RowKeys(sets[w].v.models) = StoredModels(semantic_models)
             /\ \A i \in DOMAIN sets[w].v.models :
                  sets[w].v.models[i].workspace_name = sets[w].v.models[i].workspace_id
             /\ \A h \in DOMAIN sets[w].v.history24 :
                  \E ws \in DOMAIN refreshes_by_ws : \E d \in DOMAIN refreshes_by_ws[ws].v :
                     HistoryFrom(sets[w].v.history24[h], ws, d)

\* no live workspace, three stored models and history entries of two workspaces
C16_Witness ==
    /\ pc = "performance_sets"
    /\ workspaces = <<>>
    /\ Len(WindowOf("24h").models) = 3
    /\ \E h \in DOMAIN WindowOf("24h").history24 :
         WindowOf("24h").history24[h].label.workspace = Some("w1")
    /\ \E h \in DOMAIN WindowOf("24h").history24 :
         WindowOf("24h").history24[h].label.workspace = Some("w2")

\* C17: build_performance with skip_empty omits exactly the models that have
\* zero refresh records and without it returns one record per model of
\* semantic_models in iteration order; so the models lists of the three
\* windows of a performance_sets result hold the same models in the same
\* order, also when a window's filter leaves a model without records.
C17_SkipEmptyExact ==
    /\ pc = "build_performance" =>
          RowKeys(perf) =
              IF skip_flag
              THEN SelectSeq(StoredModels(semantic_models),
                             LAMBDA key : RefreshListOf(key[1], key[2]) # <<>>)
              ELSE StoredModels(semantic_models)
    /\ pc = "performance_sets" =>
          \A w \in DOMAIN sets : RowKeys(sets[w].v.models) = StoredModels(semantic_models)

\* skip_empty dropped some model but not all of them
C17_Witness ==
    /\ pc = "build_performance"
    /\ skip_flag
    /\ perf # <<>>
    /\ Len(perf) < Len(StoredModels(semantic_models))
    /\ \E i \in DOMAIN StoredModels(semantic_models) :
         /\ StoredModels(semantic_models)[i] = <<"w1", "m1">>
         /\ RefreshListOf("w1", "m1") = <<>>

\* the "24h" filter leaves a model without records that "all" has records for
C17_WitnessWindows ==
    /\ pc = "performance_sets"
    /\ \E i \in DOMAIN WindowOf("all").models :
         /\ WindowOf("24h").models[i].total = 0
         /\ WindowOf("all").models[i].total > 0

\* a is b with some elements removed
RECURSIVE IsSubSequence(_, _)
IsSubSequence(a, b) ==
    IF a = <<>> THEN TRUE
    ELSE IF b = <<>> THEN FALSE
    ELSE IF Head(a) = Head(b) THEN IsSubSequence(Tail(a), Tail(b))
    ELSE IsSubSequence(a, Tail(b))

\* the counts of every model in window inner are at most those in window outer
CountsWithin(inner, outer) ==
    /\ Len(WindowOf(inner).models) = Len(WindowOf(outer).models)
    /\ \A i \in DOMAIN WindowOf(inner).models :
         LET a == WindowOf(inner).models[i]
             b == WindowOf(outer).models[i]
         IN  /\ a.model_id = b.model_id
             /\ a.total <= b.total
             /\ a.failures <= b.failures
             /\ a.successes <= b.successes

\* C19: in one performance_sets result total, failures and successes of
\* every model in "24h" are at most those in "7d", which are at most those in
\* "all", and the capacity series of "24h" is a sub-sequence of that of "7d",
\* which is a sub-sequence of that of "all".
C19_WindowsNest ==
    pc = "performance_sets" =>
        /\ CountsWithin("24h", "7d")
        /\ CountsWithin("7d", "all")
        /\ IsSubSequence(WindowOf("24h").capacity, WindowOf("7d").capacity)
        /\ IsSubSequence(WindowOf("7d").capacity, WindowOf("all").capacity)

\* a model and the capacity series both grow strictly from window to window
C19_Witness ==
    /\ pc = "performance_sets"
    /\ \E i \in DOMAIN WindowOf("all").models :
         /\ WindowOf("24h").models[i].total < WindowOf("7d").models[i].total
         /\ WindowOf("7d").models[i].total < WindowOf("all").models[i].total
         /\ WindowOf("24h").models[i].failures < WindowOf("all").models[i].failures
    /\ 0 < Len(WindowOf("24h").capacity)
    /\ Len(WindowOf("24h").capacity) < Len(WindowOf("7d").capacity)
    /\ Len(WindowOf("7d").capacity) < Len(WindowOf("all").capacity)

\* ------------------------------------------------ specification: model store
\* most fetches applied in one run
MaxCalls == 4

FetchedModel(id, model_id, name, displayName) ==
    [id |-> id, model_id |-> model_id, name |-> name, displayName |-> displayName]
\* lists the connector can return: models keyed by id or by model_id, one
\* model twice, a model without any id, a model named only by displayName
FetchLists ==
    LET ledger == FetchedModel(Some("m1"), None, Some("Ledger"), None)
        stock == FetchedModel(None, Some("m2"), None, Some("Stock"))
        renamed == FetchedModel(Some(""), Some("m1"), None, None)
        ghost == FetchedModel(None, None, Some("Ghost"), None)
    IN  {<<>>, <<ledger>>, <<stock>>, <<ledger, stock>>, <<ledger, renamed, ghost>>}

InitStore ==
    /\ workspaces = OneWorkspace
    /\ categories = OneCategory
    /\ semantic_models = OneModel
    /\ refreshes_by_ws = <<>>
    /\ capacity_metrics = <<>>
    /\ cutoff = None
    /\ now = NowHour
    /\ NothingComputed

\* fetch_models_api after a successful fetch: one update_semantic_models call
UpdateSemanticModels ==
    /\ clock < MaxCalls
    /\ \E workspace_id \in {"w1", "w2"} : \E models \in FetchLists :
         /\ stored' = update_semantic_models(stored, workspace_id, models, clock)
         /\ fetch_log' = Append(fetch_log, [ws |-> workspace_id, at |-> clock,
                                            ids |-> IncomingIds(models)])
    /\ clock' = clock + 1
    /\ UNCHANGED <<inputs, pc, perf, summary, filtered, refiltered, freq, sets,
                   skip_flag, scheduling, caching>>

NextStore == UpdateSemanticModels

SpecStore == InitStore /\ [][NextStore]_vars

SetMin(S) == CHOOSE x \in S : \A y \in S : x <= y
SetMax(S) == CHOOSE x \in S : \A y \in S : y <= x

\* the positions of the log that fetched workspace ws_id, and those of them
\* that held model mid
FetchesOf(ws_id) == {i \in DOMAIN fetch_log : fetch_log[i].ws = ws_id}
FetchesWith(ws_id, mid) == {i \in FetchesOf(ws_id) : mid \in fetch_log[i].ids}
\* the fetches of ws_id after the last one that held mid
OmissionsOf(ws_id, mid) ==
    {i \in FetchesOf(ws_id) : i > SetMax(FetchesWith(ws_id, mid))}

\* C18: after any sequence of update_semantic_models calls a model never
\* fetched has no row and a model fetched at least once has one; its
\* deleted_at is unset iff the most recent fetch of its workspace held it,
\* otherwise it is the time of the first fetch that omitted it since it was
\* last present; its added_at is the time of the first fetch that held it.
C18_SoftDelete ==
    \A key \in StoreKeys :
        IF FetchesWith(key[1], key[2]) = {} THEN stored[key] = None
        ELSE /\ stored[key] # None
             /\ stored[key][1].added_at = fetch_log[SetMin(FetchesWith(key[1], key[2]))].at
             /\ (stored[key][1].deleted_at = None)
                  <=> (SetMax(FetchesOf(key[1])) \in FetchesWith(key[1], key[2]))
             /\ OmissionsOf(key[1], key[2]) # {} =>
                  stored[key][1].deleted_at
                      = Some(fetch_log[SetMin(OmissionsOf(key[1], key[2]))].at)

\* w1 is fetched four times: m2 is omitted from the second fetch on and keeps
\* that time, m1 is omitted once and reappears with its first added_at
C18_Witness ==
    /\ [i \in DOMAIN fetch_log |-> <<fetch_log[i].ws, fetch_log[i].ids>>]
         = <<<<"w1", {"m1", "m2"}>>, <<"w1", {"m1"}>>, <<"w1", {}>>, <<"w1", {"m1"}>>>>
    /\ stored[<<"w1", "m1">>] = Some([name |-> "Ledger", added_at |-> 0, deleted_at |-> None])
    /\ stored[<<"w1", "m2">>] = Some([name |-> "Stock", added_at |-> 0, deleted_at |-> Some(1)])

\* --------------------------------------------- specification: schedule updates
\* request bodies: none, an empty object, two schedules
Bodies == {None, Some("{}"), Some("daily"), Some("weekly")}

InitSchedule ==
    /\ workspaces = OneWorkspace
    /\ categories = OneCategory
    /\ semantic_models \in
         {TwoWorkspaceModels,
          <<Entry("w1", <<Model("m2", None),
                          [model_id |-> None, id |-> Some(""), name |-> Some("Draft")],
                          Model("m1", Some("Ledger"))>>)>>}
    /\ refreshes_by_ws = <<>>
    /\ capacity_metrics = <<>>
    /\ cutoff = None
    /\ now = NowHour
    /\ NothingComputed

\* POST /schedule/<workspace_id>/<dataset_id>
SetSchedule ==
    /\ sched.pc \in {"idle", "done"}
    /\ served < MaxCalls
    /\ \E dataset_id \in {"m1", "m2"} : \E body \in Bodies :
         sched' = BeginSetSchedule("w1", dataset_id, body)
    /\ served' = served + 1
    /\ UNCHANGED <<inputs, pc, perf, summary, filtered, refiltered, freq, sets,
                   skip_flag, db, schedules, caching>>

\* POST /schedule-workspace/<workspace_id>
SetWorkspaceSchedule ==
    /\ sched.pc \in {"idle", "done"}
    /\ served < MaxCalls
    /\ \E workspace_id \in {"w1", "w2", "w3"} : \E body \in Bodies :
         sched' = BeginSetWorkspaceSchedule(workspace_id, body,
                                            Get(semantic_models, workspace_id, <<>>))
    /\ served' = served + 1
    /\ UNCHANGED <<inputs, pc, perf, summary, filtered, refiltered, freq, sets,
                   skip_flag, db, schedules, caching>>

TakeoverDataset ==
    /\ sched.pc = "takeover"
    /\ \E ok \in BOOLEAN : sched' = AfterTakeover(sched, ok)
    /\ UNCHANGED <<inputs, pc, perf, summary, filtered, refiltered, freq, sets,
                   skip_flag, db, schedules, served, caching>>

UpdateRefreshSchedule ==
    /\ sched.pc = "update"
    /\ \E ok \in BOOLEAN : sched' = AfterUpdate(sched, ok)
    /\ UNCHANGED <<inputs, pc, perf, summary, filtered, refiltered, freq, sets,
                   skip_flag, db, schedules, served, caching>>

SaveSchedule ==
    /\ sched.pc = "save"
    /\ \E ok \in BOOLEAN :
         /\ sched' = AfterSave(sched, ok)
         /\ schedules' = IF ok THEN save_schedule(schedules, sched.workspace_id,
                                                  sched.dataset, sched.payload)
                         ELSE schedules
    /\ UNCHANGED <<inputs, pc, perf, summary, filtered, refiltered, freq, sets,
                   skip_flag, db, served, caching>>

NextSchedule ==
    \/ SetSchedule
    \/ SetWorkspaceSchedule
    \/ TakeoverDataset
    \/ UpdateRefreshSchedule
    \/ SaveSchedule

SpecSchedule == InitSchedule /\ [][NextSchedule]_vars

\* the positions of the request's call log that called fn
Called(fn) == {i \in DOMAIN sched.calls : sched.calls[i].fn = fn}

\* what holds in every state of a schedule request
C20_Protocol ==
    /\ sched.handler = "set_schedule" =>
          \* a takeover that has returned or raised is followed by the update attempt
          /\ Called("takeover_dataset") # {} =>
                (sched.pc = "update" \/ Called("update_refresh_schedule") # {})
          \* a request with a schedule never answers before the update attempt
          /\ (sched.pc = "done" /\ sched.payload # "{}") =>
                Called("update_refresh_schedule") # {}
          \* the response is ok iff the update succeeded, whatever save did
          /\ sched.pc = "done" =>
                (sched.response[1].ok
                    <=> \E i \in Called("update_refresh_schedule") : sched.calls[i].ok)
    \* save_schedule directly follows a successful update of the same dataset
    /\ \A i \in Called("save_schedule") :
          /\ i > 1
          /\ sched.calls[i - 1] = Call("update_refresh_schedule", sched.calls[i].dataset, TRUE)

\* the schedules table changes only in the save step that follows a
\* successful update, and only for the dataset of that update
C20_StoreStep ==
    schedules' # schedules =>
        /\ sched.pc = "save"
        /\ sched.calls[Len(sched.calls)] = Call("update_refresh_schedule", sched.dataset, TRUE)
        /\ \A key \in StoreKeys :
             schedules'[key] # schedules[key] => key = <<sched.workspace_id, sched.dataset>>

\* C20: in set_schedule a failure of takeover_dataset never prevents the
\* update_refresh_schedule attempt, the response is ok iff
\* update_refresh_schedule succeeds, a failure of save_schedule never changes
\* that response, and save_schedule is only invoked after
\* update_refresh_schedule has succeeded, so a failed update never stores the
\* schedule locally.
C20_BestEffortSchedule == []C20_Protocol /\ [][C20_StoreStep]_vars

\* takeover failed, the update succeeded, the save failed: the response is ok
\* and nothing was stored
C20_Witness ==
    /\ sched.handler = "set_schedule"
    /\ sched.pc = "done"
    /\ sched.calls = <<Call("takeover_dataset", "m1", FALSE),
                       Call("update_refresh_schedule", "m1", TRUE),
                       Call("save_schedule", "m1", FALSE)>>
    /\ sched.response = Response(TRUE, 200, <<>>, <<>>)
    /\ schedules[<<"w1", "m1">>] = None

\* takeover succeeded and the update failed: not ok, nothing stored
C20_WitnessFailedUpdate ==
    /\ sched.handler = "set_schedule"
    /\ sched.pc = "done"
    /\ sched.calls = <<Call("takeover_dataset", "m2", TRUE),
                       Call("update_refresh_schedule", "m2", FALSE)>>
    /\ sched.response = Response(FALSE, 500, <<>>, <<>>)
    /\ schedules[<<"w1", "m2">>] = None

\* --------------------------------------------- specification: workspace cache
\* most fetch_workspaces calls in one run
MaxFetches == 3

\* seconds that pass before a call reads the time: the next second, one
\* second short of a full cache lifetime, a full cache lifetime
Delays == {1, CACHE_SECONDS - 1, CACHE_SECONDS}
\* seconds one run of the connector script takes
RunSeconds == {0, 2}
\* outputs of the connector script: a workspace list, an empty list, a
\* non-zero exit code, output that is not JSON, JSON without "workspaces"
ConnectorOutputs ==
    {Output(0, Some(<<Entry("workspaces", OneWorkspace)>>)),
     Output(0, Some(<<Entry("workspaces", <<>>)>>)),
     Output(1, Some(<<Entry("workspaces", OneWorkspace)>>)),
     Output(0, None),
     Output(0, Some(<<Entry("error", <<>>)>>))}

InitCache ==
    /\ workspaces = OneWorkspace
    /\ categories = OneCategory
    /\ semantic_models = OneModel
    /\ refreshes_by_ws = <<>>
    /\ capacity_metrics = <<>>
    /\ cutoff = None
    /\ now = NowHour
    /\ NothingComputed

\* fetch_workspaces, lines 52-54: the call reads the time and either returns
\* the cached list or goes on to run the connector
FetchWorkspaces ==
    /\ ws_call.pc = "idle"
    /\ Len(ws_calls) < MaxFetches
    /\ \E delay \in Delays :
         LET t == unix_time + delay
         IN  /\ unix_time' = t
             /\ IF CacheHit(workspace_cache, t)
                THEN /\ ws_call' = NoCall
                     /\ ws_calls' = Append(ws_calls,
                            CallRecord(t, t, "hit", FALSE, workspace_cache.data,
                                       workspace_cache))
                ELSE /\ ws_call' = [pc |-> "connector", entered |-> t]
                     /\ ws_calls' = ws_calls
    /\ UNCHANGED <<inputs, pc, perf, summary, filtered, refiltered, freq, sets,
                   skip_flag, db, scheduling, workspace_cache>>

\* fetch_workspaces, lines 56-67: the connector has run; the call raises, or
\* stores the list with its expiry and returns it
ConnectorReturns ==
    /\ ws_call.pc = "connector"
    /\ \E seconds \in RunSeconds : \E output \in ConnectorOutputs :
         LET t == unix_time + seconds
         IN  /\ unix_time' = t
             /\ IF Raises(output)
                THEN /\ workspace_cache' = workspace_cache
                     /\ ws_calls' = Append(ws_calls,
                            CallRecord(ws_call.entered, t, "raised", TRUE, None,
                                       workspace_cache))
                ELSE /\ workspace_cache' = Refreshed(output, t)
                     /\ ws_calls' = Append(ws_calls,
                            CallRecord(ws_call.entered, t, "fetched", TRUE,
                                       Refreshed(output, t).data, Refreshed(output, t)))
    /\ ws_call' = NoCall
    /\ UNCHANGED <<inputs, pc, perf, summary, filtered, refiltered, freq, sets,
                   skip_flag, db, scheduling>>

NextCache == FetchWorkspaces \/ ConnectorReturns

SpecCache == InitCache /\ [][NextCache]_vars

\* the last call before call j that stored a list, 0 when there is none
LastFetched(j) ==
    SetMax({0} \cup {i \in 1..(j - 1) : ws_calls[i].outcome = "fetched"})

\* the cache as call j found it
CacheBefore(j) == IF j = 1 THEN EmptyCache ELSE ws_calls[j - 1].cache

\* C21: after a fetch_workspaces call that stored a list at time t, every
\* call made before t + CACHE_SECONDS returns that list without running the
\* connector and leaves the cache alone; a call made when nothing is cached,
\* or at or after the expiry, runs the connector; a call whose connector run
\* or parse fails raises, returns no list and leaves the cached data and
\* expiry as it found them; a call that succeeds stores the list it returns
\* with the expiry CACHE_SECONDS after its own completion
C21_CacheWithExpiry ==
    /\ workspace_cache = CacheBefore(Len(ws_calls) + 1)
    /\ \A j \in 1..Len(ws_calls) :
         LET call == ws_calls[j]
             i == LastFetched(j)
         IN  /\ (i # 0 /\ call.entered < ws_calls[i].ended + CACHE_SECONDS)
                  => /\ call.outcome = "hit"
                     /\ ~call.invoked
                     /\ call.value = ws_calls[i].value
                     /\ call.cache = CacheBefore(j)
             /\ (i = 0 \/ call.entered >= ws_calls[i].ended + CACHE_SECONDS)
                  => /\ call.invoked
                     /\ call.outcome \in {"fetched", "raised"}
             /\ call.outcome = "raised"
                  => /\ call.value = None
                     /\ call.cache = CacheBefore(j)
             /\ call.outcome = "fetched"
                  => /\ call.value # None
                     /\ call.cache = [data |-> call.value,
                                      expires |-> call.ended + CACHE_SECONDS]

\* a list is fetched, a call one second before the expiry is answered from
\* the cache, and a call at the expiry runs the connector, which fails
C21_Witness ==
    /\ Len(ws_calls) = 3
    /\ ws_calls[1].outcome = "fetched"
    /\ ws_calls[1].value = Some(OneWorkspace)
    /\ ws_calls[2].outcome = "hit"
    /\ ws_calls[2].entered = ws_calls[1].ended + CACHE_SECONDS - 1
    /\ ws_calls[2].value = Some(OneWorkspace)
    /\ ws_calls[3].outcome = "raised"
    /\ ws_calls[3].entered = ws_calls[1].ended + CACHE_SECONDS
    /\ workspace_cache = ws_calls[1].cache

====
